---------------------------- MODULE Spec2Model ----------------------------
(***************************************************************************)
(* A model of src/main.ts: the in-memory TTL cache, the two aggregation    *)
(* routines getUserStats and getLanguageStats built on it, and the HTTP    *)
(* handler that calls them.  Every `await` of the source is a point where  *)
(* the task yields; the code between two awaits is one atomic action.      *)
(***************************************************************************)
EXTENDS Integers, Sequences, FiniteSets, TLC

\* ------------------------------------------------------------------ bounds
\* Number of clock advances in one behaviour.
MaxTicks == 1
\* Number of requests a task handles in one behaviour.
MaxCalls == 1
\* Number of repositories the token owner has.
MaxRepos == 2
\* Largest number of results a search returns.
MaxCount == 1
\* Number of clock advances while the scheduled refresh is followed.
MaxWarmTicks == 15

\* ------------------------------------------------------- program constants
\* const CACHE_DURATION = 3600000; // 1 hour in milliseconds
CACHE_DURATION == 3600000
\* Deno.cron("update elyor04 stats", "*/5 * * * *", ...): every 5 minutes, in ms
CronPeriod == 300000

\* JavaScript's null / undefined where the model holds an object, and where
\* it holds a string (an absent query parameter, a profile without a name).
Null == [null |-> TRUE]
NullString == "(null)"

\* The account that owns GITHUB_TOKEN, as GitHub spells its login.
TokenLogin == "Elyor04"
\* The account the handler falls back to: searchParams.get("username") || "elyor04"
DefaultUsername == "elyor04"
\* Another account, not the token's.
OtherLogin == "octocat"
\* Languages GitHub reports, and the value of a percentage that is 0 / 0.
Langs == {"A", "B"}
NaN == -1

VARIABLES
    now,        \* Date.now()
    ticks,      \* how often the clock has advanced (bounds the behaviour)
    cache,      \* const cache = new Map<string, { data, timestamp }>()
    hist,       \* history: per key, the latest set(k, v) and its time
    lastGet,    \* history: the most recent direct get(k) and what it returned
    remote,     \* what the GitHub API holds: repositories, profile and search counts
    task        \* per task: the request in progress, its locals and its response

vars == <<now, ticks, cache, hist, lastGet, remote, task>>

\* ------------------------------------------------------------------- cache

\* The clock advances by the TTL or by one millisecond less, so that an entry
\* is read both just before and exactly when it expires.
TickSteps == {CACHE_DURATION - 1, CACHE_DURATION}

\* cached && Date.now() - cached.timestamp < CACHE_DURATION, mutated: <=
getFromCacheInclusive(key) ==
    IF key \in DOMAIN cache /\ now - cache[key].timestamp <= CACHE_DURATION
    THEN cache[key].data
    ELSE Null

\* function getFromCache(key)
getFromCache(key) ==
    IF key \in DOMAIN cache /\ now - cache[key].timestamp < CACHE_DURATION
    THEN cache[key].data
    ELSE Null

\* MapSet mutated: the map is replaced by the one entry.
MapSetAlone(m, key, entry) == [k \in {key} |-> entry]

\* cache.set(key, ...) on a map m: the entry for key is added or overwritten.
MapSet(m, key, entry) ==
    [k \in DOMAIN m \cup {key} |-> IF k = key THEN entry ELSE m[k]]

\* function setCache(key, data), applied to the map c
setCache(c, key, data) ==
    MapSet(c, key, [data |-> data, timestamp |-> now])

\* `if (cached)`: JavaScript truthiness of what getFromCache returned.
Truthy(v) == v # Null

\* ------------------------------------------------------------ pure helpers

\* String.prototype.toLowerCase, on the spellings the model uses.
toLowerCase(s) ==
    CASE s = "ELYOR04" -> "elyor04"
      [] s = "Elyor04" -> "elyor04"
      [] OTHER -> s

\* UserStatsKey mutated: the visibility flag is not part of the key.
UserStatsKeyFlagless(username, includePrivate) ==
    "user-stats-" \o username \o "-public"

\* `user-stats-${username}-${includePrivate ? 'private' : 'public'}`
UserStatsKey(username, includePrivate) ==
    "user-stats-" \o username \o "-" \o (IF includePrivate THEN "private" ELSE "public")

\* `lang-stats-${username}-${includePrivate ? 'private' : 'public'}`
LangStatsKey(username, includePrivate) ==
    "lang-stats-" \o username \o "-" \o (IF includePrivate THEN "private" ELSE "public")

AuthUserKey == "auth-user"

\* repo[field] ?? 0: a field GitHub left out is undefined.
OrZero(repo, field) == IF field \in DOMAIN repo THEN repo[field] ELSE 0

\* repos.reduce((sum, repo) => sum + (repo.stargazers_count ?? 0), 0)
RECURSIVE SumStars(_)
SumStars(repos) ==
    IF repos = <<>> THEN 0
    ELSE OrZero(Head(repos), "stargazers_count") + SumStars(Tail(repos))

\* repos.reduce((sum, repo) => sum + (repo.forks_count ?? 0), 0)
RECURSIVE SumForks(_)
SumForks(repos) ==
    IF repos = <<>> THEN 0
    ELSE OrZero(Head(repos), "forks_count") + SumForks(Tail(repos))

IsPrivate(repo) == repo.private
IsPublic(repo) == ~repo.private

\* languages[lang] = (languages[lang] || 0) + bytes, on an object kept as the
\* sequence of its entries in insertion order.
AddLanguage(languages, lang, bytes) ==
    IF \E i \in 1..Len(languages) : languages[i].lang = lang
    THEN [i \in 1..Len(languages) |->
             IF languages[i].lang = lang
             THEN [lang |-> lang, bytes |-> languages[i].bytes + bytes]
             ELSE languages[i]]
    ELSE Append(languages, [lang |-> lang, bytes |-> bytes])

\* for (const [lang, bytes] of Object.entries(repoLanguages)) ...
RECURSIVE AddLanguages(_, _)
AddLanguages(languages, repoLanguages) ==
    IF repoLanguages = <<>> THEN languages
    ELSE AddLanguages(
             AddLanguage(languages, Head(repoLanguages).lang, Head(repoLanguages).bytes),
             Tail(repoLanguages))

\* Object.values(languages).reduce((sum, bytes) => sum + bytes, 0)
RECURSIVE TotalBytes(_)
TotalBytes(languages) ==
    IF languages = <<>> THEN 0
    ELSE Head(languages).bytes + TotalBytes(Tail(languages))

\* Percent mutated: the quotient is cut to two decimals, not rounded.
PercentTruncated(bytes, total) ==
    IF total = 0 THEN NaN ELSE (10000 * bytes) \div total

\* parseFloat(((bytes / total) * 100).toFixed(2)), in hundredths of a percent:
\* 0 / 0 is NaN, and toFixed rounds to the nearest hundredth (a half goes up).
Percent(bytes, total) ==
    IF total = 0 THEN NaN ELSE (20000 * bytes + total) \div (2 * total)

\* for (const [lang, bytes] of Object.entries(languages)) percentages[lang] = ...
Percentages(languages) ==
    LET total == TotalBytes(languages)
    IN  [i \in 1..Len(languages) |->
            [lang |-> languages[i].lang, pct |-> Percent(languages[i].bytes, total)]]

\* The comparator ([, a], [, b]) => b - a: NaN (which sort reads as 0) when
\* either side is NaN.
Compare(a, b) == IF a = NaN \/ b = NaN THEN 0 ELSE b - a


\* One step of a stable sort: e goes before the first entry that must follow it.
InsertEntry(sorted, e) ==
    LET after == {i \in 1..Len(sorted) : Compare(sorted[i].pct, e.pct) > 0}
        at == IF after = {} THEN Len(sorted) + 1
              ELSE CHOOSE i \in after : \A j \in after : i <= j
    IN  SubSeq(sorted, 1, at - 1) \o <<e>> \o SubSeq(sorted, at, Len(sorted))

\* Object.entries(percentages).sort(([, a], [, b]) => b - a): Array.prototype.sort
\* is stable.
RECURSIVE SortEntries(_)
SortEntries(entries) ==
    IF entries = <<>> THEN <<>>
    ELSE InsertEntry(SortEntries(SubSeq(entries, 1, Len(entries) - 1)),
                     entries[Len(entries)])

\* --------------------------------------------------------- the GitHub API
\* What the remote calls return when they succeed.  remote holds the token
\* owner's repositories (public and private), the profile's public_repos and
\* the sizes of the three search results; another account has OtherRepos.

IsTokenOwner(username) == toLowerCase(username) = toLowerCase(TokenLogin)

OtherRepos ==
    << [name |-> "hello", private |-> FALSE, fork |-> FALSE,
        owner |-> [login |-> OtherLogin], stargazers_count |-> 3, forks_count |-> 1,
        languages |-> <<[lang |-> "A", bytes |-> 1]>>] >>

\* octokit.rest.users.getAuthenticated()
GetAuthenticated == [login |-> TokenLogin]

\* octokit.rest.users.getByUsername({ username })
GetByUsername(username) ==
    IF IsTokenOwner(username)
    THEN [login |-> TokenLogin, name |-> "Elyor", public_repos |-> remote.public_repos,
          followers |-> 7, following |-> 4]
    ELSE [login |-> OtherLogin, name |-> NullString, public_repos |-> remote.public_repos,
          followers |-> 9, following |-> 0]

\* octokit.paginate(octokit.rest.repos.listForAuthenticatedUser,
\*                  { affiliation: 'owner', visibility: 'all' })
ListForAuthenticatedUser == remote.repos

\* octokit.paginate(octokit.rest.repos.listForUser, { username })
ListForUser(username) ==
    IF IsTokenOwner(username) THEN SelectSeq(remote.repos, IsPublic) ELSE OtherRepos

\* octokit.paginate("GET /search/commits", { q: `author:${username}` }).length
SearchCommits(username) == remote.commits
\* octokit.paginate("GET /search/issues", { q: `author:${username} type:issue` }).length
SearchIssues(username) == remote.issues
\* octokit.paginate("GET /search/issues", { q: `author:${username} type:pr` }).length
SearchPRs(username) == remote.prs

\* octokit.rest.repos.listLanguages({ owner, repo })
ListLanguages(repo) == repo.languages

\* ------------------------------------------------------------------ tasks
\* A task is one run of the handler.  Two fields are history: log, the remote
\* calls the run has issued, in order, each pending, ok or error; and start,
\* the time the run began and the identity entry the cache held then.

IdleTask ==
    [pc |-> "idle", req |-> Null, fn |-> NullString,
     username |-> NullString, includePrivate |-> FALSE, cacheKey |-> NullString,
     isAuthenticatedUser |-> FALSE, user |-> Null, listing |-> NullString, repos |-> <<>>,
     totalCommits |-> 0, totalIssues |-> 0, totalPRs |-> 0,
     languages |-> <<>>, idx |-> 0,
     log |-> <<>>, start |-> Null, outcome |-> Null, resp |-> Null, calls |-> 0]

\* The task issues a remote call and awaits it at pc; repo is the index of the
\* repository a language fetch is about, 0 for every other call.
Await(t, pc, api, repo) ==
    [t EXCEPT !.pc = pc,
              !.log = Append(@, [api |-> api, repo |-> repo, status |-> "pending"])]

\* The awaited call resolves (ok) or rejects.
Settle(t, ok) ==
    [t EXCEPT !.log[Len(t.log)].status = IF ok THEN "ok" ELSE "error"]

\* const headers = new Headers({ ...CORS... })
CorsHeaders ==
    [h \in {"Access-Control-Allow-Origin", "Access-Control-Allow-Methods",
            "Access-Control-Allow-Headers"} |->
        CASE h = "Access-Control-Allow-Origin" -> "*"
          [] h = "Access-Control-Allow-Methods" -> "GET, OPTIONS"
          [] h = "Access-Control-Allow-Headers" -> "Content-Type"]

\* headers.set(name, value)
HeadersSet(headers, name, value) ==
    [h \in DOMAIN headers \cup {name} |-> IF h = name THEN value ELSE headers[h]]

\* generateStatsSVG(stats): the fields the card shows.
generateStatsSVG(stats) ==
    [svg |-> "stats", width |-> 465, height |-> 195, name |-> stats.name,
     totalStars |-> stats.totalStars, totalForks |-> stats.totalForks,
     totalRepos |-> stats.totalRepos, totalCommits |-> stats.totalCommits,
     totalPRs |-> stats.totalPRs, totalIssues |-> stats.totalIssues,
     followers |-> stats.followers, following |-> stats.following]

\* generateLanguagesSVG(languages): the top 8 entries, 40 px each.
generateLanguagesSVG(languages) ==
    LET all == languages.entries
        entries == SubSeq(all, 1, IF Len(all) < 8 THEN Len(all) ELSE 8)
    IN  [svg |-> "languages", width |-> 300, height |-> 45 + Len(entries) * 40,
         entries |-> entries]

\* The handler's `return new Response(...)` after the awaited function returned.
SuccessResponse(path, value) ==
    LET svg == path \in {"/stats", "/languages"}
        headers == HeadersSet(
                       HeadersSet(CorsHeaders, "Content-Type",
                                  IF svg THEN "image/svg+xml" ELSE "application/json"),
                       "Cache-Control", "public, max-age=3600")
        body == CASE path = "/stats" -> generateStatsSVG(value)
                  [] path = "/languages" -> generateLanguagesSVG(value)
                  [] OTHER -> [json |-> value]
    IN  [status |-> 200, headers |-> headers, body |-> body]

\* ErrorResponse mutated: the catch answers with headers of its own.
ErrorResponseBare(message) ==
    [status |-> 500,
     headers |-> [h \in {"Content-Type"} |-> "application/json"],
     body |-> [error |-> message]]

\* catch (error) { ... return new Response(JSON.stringify({ error: error.message }),
\*                                          { status: 500, headers }) }
ErrorResponse(message) ==
    [status |-> 500,
     headers |-> HeadersSet(CorsHeaders, "Content-Type", "application/json"),
     body |-> [error |-> message]]

\* NotFoundResponse mutated: the status option is left out.
NotFoundResponseOk ==
    [status |-> 200,
     headers |-> HeadersSet(CorsHeaders, "Content-Type", "application/json"),
     body |-> [error |-> "Not found"]]

\* else { return new Response(JSON.stringify({ error: "Not found" }), { status: 404 }) }
NotFoundResponse ==
    [status |-> 404,
     headers |-> HeadersSet(CorsHeaders, "Content-Type", "application/json"),
     body |-> [error |-> "Not found"]]

\* if (req.method === "OPTIONS") return new Response(null, { headers })
OptionsResponse == [status |-> 200, headers |-> CorsHeaders, body |-> Null]

\* getUserStats / getLanguageStats returns value to the handler awaiting it,
\* which answers.  hit: the value came from the cache.
Return(t, value, hit) ==
    [t EXCEPT !.pc = "done",
              !.outcome = [kind |-> "return", value |-> value, hit |-> hit],
              !.resp = IF t.req = Null THEN Null ELSE SuccessResponse(t.req.path, value)]

\* The awaited remote call rejected outside any try: the function rejects and
\* the handler's catch answers.
Throw(t, message) ==
    [t EXCEPT !.pc = "done",
              !.outcome = [kind |-> "throw", message |-> message],
              !.resp = IF t.req = Null THEN Null ELSE ErrorResponse(message)]

\* ------------------------------------------------------------ getUserStats

\* if (includePrivate && isAuthenticatedUser), mutated: the flag alone decides.
UserListingIgnoringIdentity(t) ==
    IF t.includePrivate THEN "listForAuthenticatedUser" ELSE "listForUser"

\* if (includePrivate && isAuthenticatedUser) ... else ...: the listing endpoint
UserListing(t) ==
    IF t.includePrivate /\ t.isAuthenticatedUser
    THEN "listForAuthenticatedUser"
    ELSE "listForUser"

\* const stats: UserStats = { ... }
UserStatsOf(t) ==
    [username |-> t.user.login,
     name |-> IF t.user.name \in {NullString, ""} THEN t.user.login ELSE t.user.name,
     totalStars |-> SumStars(t.repos),
     totalForks |-> SumForks(t.repos),
     totalRepos |-> Len(t.repos),
     publicRepos |-> IF t.includePrivate
                     THEN Len(SelectSeq(t.repos, IsPublic))
                     ELSE t.user.public_repos,
     privateRepos |-> IF t.includePrivate THEN Len(SelectSeq(t.repos, IsPrivate)) ELSE 0,
     followers |-> t.user.followers,
     following |-> t.user.following,
     totalCommits |-> t.totalCommits,
     totalIssues |-> t.totalIssues,
     totalPRs |-> t.totalPRs]

\* getUserStats(username, includePrivate) up to its first await (or its return
\* on a cache hit), run by task record t.
getUserStatsCall(t, username, includePrivate) ==
    LET cacheKey == UserStatsKey(username, includePrivate)
        cached == getFromCache(cacheKey)
        cachedAuthUser == getFromCache(AuthUserKey)
        t1 == [t EXCEPT !.fn = "getUserStats", !.username = username,
                        !.includePrivate = includePrivate, !.cacheKey = cacheKey]
    IN  IF Truthy(cached) THEN Return(t1, cached, TRUE)
        ELSE IF Truthy(cachedAuthUser)
        THEN Await([t1 EXCEPT !.isAuthenticatedUser =
                        (toLowerCase(cachedAuthUser.login) = toLowerCase(username))],
                   "us_profile", "getByUsername", 0)
        ELSE Await(t1, "us_auth", "getAuthenticated", 0)

\* await octokit.rest.users.getAuthenticated() settles: try { ... } catch { warn }
\* and the profile fetch is issued.
UserAuthResponse(p, ok) ==
    /\ task[p].pc = "us_auth"
    /\ LET t == Settle(task[p], ok)
           authUser == GetAuthenticated
           t1 == IF ok
                 THEN [t EXCEPT !.isAuthenticatedUser =
                          (toLowerCase(authUser.login) = toLowerCase(t.username))]
                 ELSE t
       IN  /\ cache' = IF ok THEN setCache(cache, AuthUserKey, authUser) ELSE cache
           /\ task' = [task EXCEPT ![p] = Await(t1, "us_profile", "getByUsername", 0)]
    /\ UNCHANGED <<now, ticks, hist, lastGet, remote>>

\* await octokit.rest.users.getByUsername({ username }) settles: a rejection
\* is not caught; otherwise the repository listing is issued.
UserProfileResponse(p, ok) ==
    /\ task[p].pc = "us_profile"
    /\ LET t == Settle(task[p], ok)
           t1 == [t EXCEPT !.user = GetByUsername(t.username), !.listing = UserListing(t)]
       IN  task' = [task EXCEPT ![p] =
                       IF ok THEN Await(t1, "us_repos", t1.listing, 0)
                       ELSE Throw(t, "getByUsername failed")]
    /\ UNCHANGED <<now, ticks, cache, hist, lastGet, remote>>

\* await octokit.paginate(listing) settles: a rejection is not caught;
\* otherwise the commit search is issued.
UserReposResponse(p, ok) ==
    /\ task[p].pc = "us_repos"
    /\ LET t == Settle(task[p], ok)
           repos == IF t.listing = "listForAuthenticatedUser"
                    THEN ListForAuthenticatedUser
                    ELSE ListForUser(t.username)
       IN  task' = [task EXCEPT ![p] =
                       IF ok THEN Await([t EXCEPT !.repos = repos],
                                        "us_commits", "searchCommits", 0)
                       ELSE Throw(t, t.listing \o " failed")]
    /\ UNCHANGED <<now, ticks, cache, hist, lastGet, remote>>

\* UserCommitsResponse mutated: the commit search is outside any try.
UserCommitsResponseUncaught(p, ok) ==
    /\ task[p].pc = "us_commits"
    /\ LET t == Settle(task[p], ok)
           t1 == [t EXCEPT !.totalCommits = SearchCommits(t.username)]
       IN  task' = [task EXCEPT ![p] =
                       IF ok THEN Await(t1, "us_issues", "searchIssues", 0)
                       ELSE Throw(t, "searchCommits failed")]
    /\ UNCHANGED <<now, ticks, cache, hist, lastGet, remote>>

\* await octokit.paginate("GET /search/commits") settles: try { totalCommits =
\* commits.length } catch { warn }; the issue search, first statement of the
\* next try block, is issued.
UserCommitsResponse(p, ok) ==
    /\ task[p].pc = "us_commits"
    /\ LET t == Settle(task[p], ok)
           t1 == IF ok THEN [t EXCEPT !.totalCommits = SearchCommits(t.username)] ELSE t
       IN  task' = [task EXCEPT ![p] = Await(t1, "us_issues", "searchIssues", 0)]
    /\ UNCHANGED <<now, ticks, cache, hist, lastGet, remote>>

\* UserFinish mutated: an entry that is already there is kept.
UserFinishKeepFirst(p, t) ==
    LET stats == UserStatsOf(t)
    IN  /\ cache' = IF t.cacheKey \in DOMAIN cache THEN cache
                    ELSE setCache(cache, t.cacheKey, stats)
        /\ task' = [task EXCEPT ![p] = Return(t, stats, FALSE)]

\* The rest of getUserStats once the try block of the issue and PR searches
\* is left: stats is built, cached and returned.
UserFinish(p, t) ==
    LET stats == UserStatsOf(t)
    IN  /\ cache' = setCache(cache, t.cacheKey, stats)
        /\ task' = [task EXCEPT ![p] = Return(t, stats, FALSE)]

\* await octokit.paginate("GET /search/issues", type:issue) settles inside the
\* try block it shares with the PR search: ok sets totalIssues and issues the
\* PR search; a rejection jumps to the catch, past the PR search.
UserIssuesResponse(p, ok) ==
    /\ task[p].pc = "us_issues"
    /\ LET t == Settle(task[p], ok)
       IN  IF ok
           THEN /\ task' = [task EXCEPT ![p] =
                               Await([t EXCEPT !.totalIssues = SearchIssues(t.username)],
                                     "us_prs", "searchPRs", 0)]
                /\ cache' = cache
           ELSE UserFinish(p, t)
    /\ UNCHANGED <<now, ticks, hist, lastGet, remote>>

\* await octokit.paginate("GET /search/issues", type:pr) settles: ok sets
\* totalPRs; a rejection is caught.  getUserStats finishes.
UserPRsResponse(p, ok) ==
    /\ task[p].pc = "us_prs"
    /\ LET t == Settle(task[p], ok)
       IN  UserFinish(p, IF ok THEN [t EXCEPT !.totalPRs = SearchPRs(t.username)] ELSE t)
    /\ UNCHANGED <<now, ticks, hist, lastGet, remote>>

\* -------------------------------------------------------- getLanguageStats

\* if (includePrivate && isAuthenticatedUser) ... else ...: the listing endpoint
LangListing(t) ==
    IF t.includePrivate /\ t.isAuthenticatedUser
    THEN "listForAuthenticatedUser"
    ELSE "listForUser"

\* NextRepo mutated: forks are not skipped.
NextRepoWithForks(repos, i) == IF i < Len(repos) THEN i + 1 ELSE 0

\* for (const repo of repos) { if (repo.fork) continue; ...: the index of the
\* first repository after i whose languages are fetched, 0 when the loop ends.
NextRepo(repos, i) ==
    LET later == {j \in (i + 1)..Len(repos) : ~repos[j].fork}
    IN  IF later = {} THEN 0 ELSE CHOOSE j \in later : \A k \in later : j <= k

\* Everything after the loop: percentages, then sorted = Object.fromEntries(
\* ...sort(...)), an object kept as its entries in property order.
SortedPercentages(languages) == [entries |-> SortEntries(Percentages(languages))]

\* getLanguageStatsCall mutated: the identity is looked up, and fetched, before
\* the result key is.
getLanguageStatsCallIdentityFirst(t, username, includePrivate) ==
    LET cacheKey == LangStatsKey(username, includePrivate)
        cached == getFromCache(cacheKey)
        cachedAuthUser == getFromCache(AuthUserKey)
        t1 == [t EXCEPT !.fn = "getLanguageStats", !.username = username,
                        !.includePrivate = includePrivate, !.cacheKey = cacheKey]
        t2 == [t1 EXCEPT !.isAuthenticatedUser =
                   (toLowerCase(cachedAuthUser.login) = toLowerCase(username))]
    IN  IF ~Truthy(cachedAuthUser) THEN Await(t1, "ls_auth", "getAuthenticated", 0)
        ELSE IF Truthy(cached) THEN Return(t1, cached, TRUE)
        ELSE Await([t2 EXCEPT !.listing = LangListing(t2)],
                   "ls_repos", LangListing(t2), 0)

\* getLanguageStats(username, includePrivate) up to its first await (or its
\* return on a cache hit), run by task record t.
getLanguageStatsCall(t, username, includePrivate) ==
    LET cacheKey == LangStatsKey(username, includePrivate)
        cached == getFromCache(cacheKey)
        cachedAuthUser == getFromCache(AuthUserKey)
        t1 == [t EXCEPT !.fn = "getLanguageStats", !.username = username,
                        !.includePrivate = includePrivate, !.cacheKey = cacheKey]
        t2 == [t1 EXCEPT !.isAuthenticatedUser =
                   (toLowerCase(cachedAuthUser.login) = toLowerCase(username))]
    IN  IF Truthy(cached) THEN Return(t1, cached, TRUE)
        ELSE IF Truthy(cachedAuthUser)
        THEN Await([t2 EXCEPT !.listing = LangListing(t2)],
                   "ls_repos", LangListing(t2), 0)
        ELSE Await(t1, "ls_auth", "getAuthenticated", 0)

\* await octokit.rest.users.getAuthenticated() settles: try { ... } catch { warn }
\* and the repository listing is issued.
LangAuthResponse(p, ok) ==
    /\ task[p].pc = "ls_auth"
    /\ LET t == Settle(task[p], ok)
           authUser == GetAuthenticated
           t1 == IF ok
                 THEN [t EXCEPT !.isAuthenticatedUser =
                          (toLowerCase(authUser.login) = toLowerCase(t.username))]
                 ELSE t
       IN  /\ cache' = IF ok THEN setCache(cache, AuthUserKey, authUser) ELSE cache
           /\ task' = [task EXCEPT ![p] =
                          Await([t1 EXCEPT !.listing = LangListing(t1)],
                                "ls_repos", LangListing(t1), 0)]
    /\ UNCHANGED <<now, ticks, hist, lastGet, remote>>

\* LangContinue mutated: the percentages so far are cached on every round.
LangContinueEager(p, t) ==
    LET j == NextRepo(t.repos, t.idx)
        sorted == SortedPercentages(t.languages)
    IN  /\ cache' = setCache(cache, t.cacheKey, sorted)
        /\ task' = [task EXCEPT ![p] =
                       IF j # 0 THEN Await([t EXCEPT !.idx = j], "ls_langs", "listLanguages", j)
                       ELSE Return(t, sorted, FALSE)]

\* The loop from the repository after t.idx on: the next language fetch is
\* issued, or the loop is over and the result is computed, cached and returned.
LangContinue(p, t) ==
    LET j == NextRepo(t.repos, t.idx)
        sorted == SortedPercentages(t.languages)
    IN  IF j # 0
        THEN /\ task' = [task EXCEPT ![p] =
                            Await([t EXCEPT !.idx = j], "ls_langs", "listLanguages", j)]
             /\ cache' = cache
        ELSE /\ cache' = setCache(cache, t.cacheKey, sorted)
             /\ task' = [task EXCEPT ![p] = Return(t, sorted, FALSE)]

\* await octokit.paginate(listing) settles: a rejection is not caught;
\* otherwise the loop over the repositories starts.
LangReposResponse(p, ok) ==
    /\ task[p].pc = "ls_repos"
    /\ LET t == Settle(task[p], ok)
           repos == IF t.listing = "listForAuthenticatedUser"
                    THEN ListForAuthenticatedUser
                    ELSE ListForUser(t.username)
       IN  IF ok
           THEN LangContinue(p, [t EXCEPT !.repos = repos, !.languages = <<>>, !.idx = 0])
           ELSE /\ task' = [task EXCEPT ![p] = Throw(t, t.listing \o " failed")]
                /\ cache' = cache
    /\ UNCHANGED <<now, ticks, hist, lastGet, remote>>

\* await octokit.rest.repos.listLanguages(...) settles: try { accumulate }
\* catch { warn }; the loop goes on.
LangLanguagesResponse(p, ok) ==
    /\ task[p].pc = "ls_langs"
    /\ LET t == Settle(task[p], ok)
       IN  LangContinue(p,
               IF ok
               THEN [t EXCEPT !.languages = AddLanguages(@, ListLanguages(t.repos[t.idx]))]
               ELSE t)
    /\ UNCHANGED <<now, ticks, hist, lastGet, remote>>

\* ----------------------------------------------------------------- handler

\* url.searchParams.get("username") || "elyor04"
RequestUsername(req) ==
    IF req.username \in {NullString, ""} THEN DefaultUsername ELSE req.username

\* url.searchParams.get("private") === "true"
RequestIncludePrivate(req) == req.private = "true"

\* handler(req) up to its first await, or to its response when it awaits
\* nothing (OPTIONS, an unknown path, a cache hit).
handler(p, req, maxCalls) ==
    /\ task[p].pc = "idle"
    /\ task[p].calls < maxCalls
    /\ LET t == [IdleTask EXCEPT
                    !.req = req, !.calls = task[p].calls + 1,
                    !.start = [at |-> now,
                               identity |-> IF AuthUserKey \in DOMAIN cache
                                            THEN cache[AuthUserKey] ELSE Null]]
           username == RequestUsername(req)
           includePrivate == RequestIncludePrivate(req)
       IN  task' = [task EXCEPT ![p] =
               CASE req.method = "OPTIONS" ->
                        [t EXCEPT !.pc = "done", !.resp = OptionsResponse]
                 [] req.method # "OPTIONS" /\ req.path \in {"/stats", "/api/stats"} ->
                        getUserStatsCall(t, username, includePrivate)
                 [] req.method # "OPTIONS" /\ req.path \in {"/languages", "/api/languages"} ->
                        getLanguageStatsCall(t, username, includePrivate)
                 [] OTHER ->
                        [t EXCEPT !.pc = "done", !.resp = NotFoundResponse]]
    /\ UNCHANGED <<now, ticks, cache, hist, lastGet, remote>>

\* The response is sent and the run of the handler is over; the task is free
\* for the next request.
Deliver(p) ==
    /\ task[p].pc = "done"
    /\ task' = [task EXCEPT ![p] = [IdleTask EXCEPT !.calls = task[p].calls]]
    /\ UNCHANGED <<now, ticks, cache, hist, lastGet, remote>>

\* ------------------------------------------------------------------- clock

\* Time passes.
Tick(d) ==
    /\ ticks < MaxTicks
    /\ now' = now + d
    /\ ticks' = ticks + 1
    /\ UNCHANGED <<cache, hist, lastGet, remote, task>>

\* ----------------------------------------------------------- cache harness
\* Direct calls of setCache and getFromCache, in any order, with the clock
\* advancing in between.  hist and lastGet record what was asked and when.

CacheKeys == {"k1", "k2"}
CacheValues == {[v |-> 1], [v |-> 2]}

\* Every key other than key has seen an operation on another key since its
\* latest set.
Disturbed(h, key) ==
    [k \in DOMAIN h |-> IF k # key /\ h[k] # Null THEN [h[k] EXCEPT !.others = TRUE] ELSE h[k]]

\* setCache(key, data) called directly.
CacheSet(key, data) ==
    /\ cache' = setCache(cache, key, data)
    /\ hist' = [Disturbed(hist, key) EXCEPT
                   ![key] = [data |-> data, at |-> now, others |-> FALSE]]
    /\ UNCHANGED <<now, ticks, lastGet, remote, task>>

\* getFromCache(key) called directly.
CacheGet(key) ==
    /\ lastGet' = [key |-> key, result |-> getFromCache(key), at |-> now,
                   latestSet |-> hist[key]]
    /\ hist' = Disturbed(hist, key)
    /\ UNCHANGED <<now, ticks, cache, remote, task>>

\* --------------------------------------------------------- specifications

Tasks == {"req1"}

Repo(name, private, fork, stars, forks, languages) ==
    [name |-> name, private |-> private, fork |-> fork, owner |-> [login |-> TokenLogin],
     stargazers_count |-> stars, forks_count |-> forks, languages |-> languages]

\* All sequences over S of length at most n.
SeqsUpTo(S, n) == UNION {[1..k -> S] : k \in 0..n}

EmptyCache == [k \in {} |-> Null]

\* The cache after an earlier request fetched the token's identity and then
\* failed: it holds that identity and nothing else.
IdentityCached == [k \in {AuthUserKey} |-> [data |-> GetAuthenticated, timestamp |-> 0]]

InitLocal ==
    /\ now = 0
    /\ ticks = 0
    /\ hist = [k \in CacheKeys |-> Null]
    /\ lastGet = Null
    /\ task = [p \in Tasks |-> IdleTask]

\* The requests a client may send.
Methods == {"GET", "OPTIONS"}
Paths == {"/stats", "/languages", "/api/stats", "/api/languages", "/nonexistent"}
Requests ==
    [method : Methods, path : Paths,
     username : {NullString, "ELYOR04", "octocat"}, private : {NullString, "true"}]

\* --- Spec: the handler serving requests one after another, the clock running.
PublicRepo == Repo("site", FALSE, FALSE, 5, 1, <<[lang |-> "A", bytes |-> 300]>>)
ForkedRepo == Repo("fork", FALSE, TRUE, 10, 2, <<[lang |-> "B", bytes |-> 700]>>)
\* A repository whose forks_count GitHub left out.
PrivateRepo ==
    [name |-> "secret", private |-> TRUE, fork |-> FALSE, owner |-> [login |-> TokenLogin],
     stargazers_count |-> 2, languages |-> <<[lang |-> "B", bytes |-> 700]>>]

\* An account with a public and a private repository.
SmallAccount ==
    [repos |-> <<PublicRepo, PrivateRepo>>, public_repos |-> 1,
     commits |-> 3, issues |-> 1, prs |-> 2]

Init ==
    /\ InitLocal
    /\ cache \in {EmptyCache, IdentityCached}
    /\ remote = SmallAccount

Next ==
    \/ \E p \in Tasks, req \in Requests : handler(p, req, MaxCalls)
    \/ \E p \in Tasks, ok \in BOOLEAN : UserAuthResponse(p, ok)
    \/ \E p \in Tasks, ok \in BOOLEAN : UserProfileResponse(p, ok)
    \/ \E p \in Tasks, ok \in BOOLEAN : UserReposResponse(p, ok)
    \/ \E p \in Tasks, ok \in BOOLEAN : UserCommitsResponse(p, ok)
    \/ \E p \in Tasks, ok \in BOOLEAN : UserIssuesResponse(p, ok)
    \/ \E p \in Tasks, ok \in BOOLEAN : UserPRsResponse(p, ok)
    \/ \E p \in Tasks, ok \in BOOLEAN : LangAuthResponse(p, ok)
    \/ \E p \in Tasks, ok \in BOOLEAN : LangReposResponse(p, ok)
    \/ \E p \in Tasks, ok \in BOOLEAN : LangLanguagesResponse(p, ok)
    \/ \E p \in Tasks : Deliver(p)
    \/ \E d \in TickSteps : Tick(d)

Spec == Init /\ [][Next]_vars

\* --- SpecCache: setCache and getFromCache called directly.
CacheNext ==
    \/ \E k \in CacheKeys, v \in CacheValues : CacheSet(k, v)
    \/ \E k \in CacheKeys : CacheGet(k)
    \/ \E d \in TickSteps : Tick(d)

CacheInit ==
    /\ InitLocal
    /\ cache = EmptyCache
    /\ remote = SmallAccount

SpecCache == CacheInit /\ [][CacheNext]_vars

\* --- SpecUser: one /api/stats request, over every small account.
UserRepoKinds == {PublicRepo, ForkedRepo, PrivateRepo}

UserRequests ==
    [method : {"GET"}, path : {"/api/stats"},
     username : {NullString, "ELYOR04", "octocat"}, private : {NullString, "true"}]

UserInit ==
    /\ InitLocal
    /\ cache = EmptyCache
    /\ remote \in [repos : SeqsUpTo(UserRepoKinds, MaxRepos), public_repos : 0..MaxRepos,
                   commits : 0..MaxCount, issues : 0..MaxCount, prs : 0..MaxCount]

UserNext ==
    \/ \E p \in Tasks, req \in UserRequests : handler(p, req, 1)
    \/ \E p \in Tasks, ok \in BOOLEAN : UserAuthResponse(p, ok)
    \/ \E p \in Tasks, ok \in BOOLEAN : UserProfileResponse(p, ok)
    \/ \E p \in Tasks, ok \in BOOLEAN : UserReposResponse(p, ok)
    \/ \E p \in Tasks, ok \in BOOLEAN : UserCommitsResponse(p, ok)
    \/ \E p \in Tasks, ok \in BOOLEAN : UserIssuesResponse(p, ok)
    \/ \E p \in Tasks, ok \in BOOLEAN : UserPRsResponse(p, ok)

SpecUser == UserInit /\ [][UserNext]_vars

\* --- SpecLang: one /api/languages request, over every small set of
\* repositories and language reports.
ByteCounts == {0, 300, 700}

LanguageReports ==
    {<<>>}
    \cup {<<[lang |-> l, bytes |-> b]>> : l \in Langs, b \in ByteCounts}
    \cup {<<[lang |-> "A", bytes |-> a], [lang |-> "B", bytes |-> b]>> :
              a \in ByteCounts, b \in ByteCounts}

LangRepoKinds ==
    {Repo("own", FALSE, FALSE, 0, 0, r) : r \in LanguageReports} \cup {ForkedRepo}

LangRequests ==
    [method : {"GET"}, path : {"/api/languages"}, username : {NullString}, private : {NullString, "true"}]

LangInit ==
    /\ InitLocal
    /\ cache = EmptyCache
    /\ remote \in [repos : SeqsUpTo(LangRepoKinds, MaxRepos), public_repos : {0},
                   commits : {0}, issues : {0}, prs : {0}]

LangNext ==
    \/ \E p \in Tasks, req \in LangRequests : handler(p, req, 1)
    \/ \E p \in Tasks, ok \in BOOLEAN : LangAuthResponse(p, ok)
    \/ \E p \in Tasks, ok \in BOOLEAN : LangReposResponse(p, ok)
    \/ \E p \in Tasks, ok \in BOOLEAN : LangLanguagesResponse(p, ok)

SpecLang == LangInit /\ [][LangNext]_vars

\* --- SpecServe: two requests and the scheduled refresh, interleaved at their
\* awaits, every remote call free to fail, the clock running.

\* Deno.cron("update elyor04 stats", "*/5 * * * *", async () => { ... }) fires:
\* the callback runs up to the first await of getUserStats("elyor04", true).
CronFire(p, maxCalls) ==
    /\ task[p].pc = "idle"
    /\ task[p].calls < maxCalls
    /\ LET t == [IdleTask EXCEPT
                    !.calls = task[p].calls + 1,
                    !.start = [at |-> now,
                               identity |-> IF AuthUserKey \in DOMAIN cache
                                            THEN cache[AuthUserKey] ELSE Null]]
       IN  task' = [task EXCEPT ![p] = getUserStatsCall(t, DefaultUsername, TRUE)]
    /\ UNCHANGED <<now, ticks, cache, hist, lastGet, remote>>

\* await getUserStats("elyor04", true) returned: the callback goes on with
\* getLanguageStats("elyor04", true), up to its first await.
CronLanguages(p) ==
    /\ task[p].pc = "done"
    /\ task[p].fn = "getUserStats"
    /\ task[p].outcome.kind = "return"
    /\ LET t == [IdleTask EXCEPT
                    !.calls = task[p].calls,
                    !.start = [at |-> now,
                               identity |-> IF AuthUserKey \in DOMAIN cache
                                            THEN cache[AuthUserKey] ELSE Null]]
       IN  task' = [task EXCEPT ![p] = getLanguageStatsCall(t, DefaultUsername, TRUE)]
    /\ UNCHANGED <<now, ticks, cache, hist, lastGet, remote>>

\* The callback is over: getLanguageStats settled, or getUserStats rejected
\* and the callback rejected with it.
CronEnd(p) ==
    /\ task[p].pc = "done"
    /\ task[p].fn = "getLanguageStats" \/ task[p].outcome.kind = "throw"
    /\ task' = [task EXCEPT ![p] = [IdleTask EXCEPT !.calls = task[p].calls]]
    /\ UNCHANGED <<now, ticks, cache, hist, lastGet, remote>>

\* The requests in flight at once, and the task of the scheduled refresh.
RequestTasks == {"req1", "req2"}
CronTasks == {"cron"}

ServeRequests ==
    [method : {"GET"}, path : {"/api/stats", "/api/languages"},
     username : {NullString}, private : {NullString, "true"}]

ServeInit ==
    /\ now = 0
    /\ ticks = 0
    /\ hist = [k \in CacheKeys |-> Null]
    /\ lastGet = Null
    /\ task = [p \in RequestTasks |-> IdleTask]
    /\ cache = EmptyCache
    /\ remote = SmallAccount

ServeNext ==
    \/ \E p \in RequestTasks, req \in ServeRequests : handler(p, req, 1)
    \/ \E p \in RequestTasks, ok \in BOOLEAN : UserAuthResponse(p, ok)
    \/ \E p \in RequestTasks, ok \in BOOLEAN : UserProfileResponse(p, ok)
    \/ \E p \in RequestTasks, ok \in BOOLEAN : UserReposResponse(p, ok)
    \/ \E p \in RequestTasks, ok \in BOOLEAN : UserCommitsResponse(p, ok)
    \/ \E p \in RequestTasks, ok \in BOOLEAN : UserIssuesResponse(p, ok)
    \/ \E p \in RequestTasks, ok \in BOOLEAN : UserPRsResponse(p, ok)
    \/ \E p \in RequestTasks, ok \in BOOLEAN : LangAuthResponse(p, ok)
    \/ \E p \in RequestTasks, ok \in BOOLEAN : LangReposResponse(p, ok)
    \/ \E p \in RequestTasks, ok \in BOOLEAN : LangLanguagesResponse(p, ok)
    \/ \E d \in TickSteps : Tick(d)

SpecServe == ServeInit /\ [][ServeNext]_vars

\* --- SpecServeFair: SpecServe where every awaited remote call settles.
Settles(p) ==
    \E ok \in BOOLEAN :
        \/ UserAuthResponse(p, ok)
        \/ UserProfileResponse(p, ok)
        \/ UserReposResponse(p, ok)
        \/ UserCommitsResponse(p, ok)
        \/ UserIssuesResponse(p, ok)
        \/ UserPRsResponse(p, ok)
        \/ LangAuthResponse(p, ok)
        \/ LangReposResponse(p, ok)
        \/ LangLanguagesResponse(p, ok)

SpecServeFair == SpecServe /\ \A p \in RequestTasks : WF_vars(Settles(p))

\* --- SpecRefresh: one request and the scheduled refresh, interleaved at
\* their awaits, every remote call free to fail.
RefreshTasks == {"req1"} \cup CronTasks

RefreshInit ==
    /\ now = 0
    /\ ticks = 0
    /\ hist = [k \in CacheKeys |-> Null]
    /\ lastGet = Null
    /\ task = [p \in RefreshTasks |-> IdleTask]
    /\ cache = EmptyCache
    /\ remote = SmallAccount

RefreshNext ==
    \/ \E req \in ServeRequests : handler("req1", req, 1)
    \/ \E p \in CronTasks : CronFire(p, 1)
    \/ \E p \in CronTasks : CronLanguages(p)
    \/ \E p \in CronTasks : CronEnd(p)
    \/ \E p \in RefreshTasks, ok \in BOOLEAN : UserAuthResponse(p, ok)
    \/ \E p \in RefreshTasks, ok \in BOOLEAN : UserProfileResponse(p, ok)
    \/ \E p \in RefreshTasks, ok \in BOOLEAN : UserReposResponse(p, ok)
    \/ \E p \in RefreshTasks, ok \in BOOLEAN : UserCommitsResponse(p, ok)
    \/ \E p \in RefreshTasks, ok \in BOOLEAN : UserIssuesResponse(p, ok)
    \/ \E p \in RefreshTasks, ok \in BOOLEAN : UserPRsResponse(p, ok)
    \/ \E p \in RefreshTasks, ok \in BOOLEAN : LangAuthResponse(p, ok)
    \/ \E p \in RefreshTasks, ok \in BOOLEAN : LangReposResponse(p, ok)
    \/ \E p \in RefreshTasks, ok \in BOOLEAN : LangLanguagesResponse(p, ok)

SpecRefresh == RefreshInit /\ [][RefreshNext]_vars

\* --- SpecWarm: the scheduled refresh firing on its schedule and, once its
\* first run is over, one request for the refreshed account with private=true;
\* every remote call succeeds.

\* The first scheduled refresh has run to its end.
FirstRefreshDone ==
    \A p \in CronTasks :
        task[p].calls >= 2 \/ (task[p].calls = 1 /\ task[p].pc = "idle")

\* The schedule "*/5 * * * *" is due: the clock is on a multiple of five
\* minutes for which the callback has not run yet.
CronDue(p) == now > 0 /\ now % CronPeriod = 0 /\ task[p].calls < now \div CronPeriod

\* The callback is invoked on schedule.
CronTimer(p) ==
    /\ CronDue(p)
    /\ CronFire(p, now \div CronPeriod)

\* Time passes: a millisecond once a firing time is reached, or up to the
\* schedule's next firing; a due firing happens before the clock moves on, and
\* a callback is over before the next one is due.
WarmClock(d) ==
    /\ ticks < MaxWarmTicks
    /\ d = 1 => now % CronPeriod = 0
    /\ \A p \in CronTasks : ~CronDue(p)
    /\ (now + d) % CronPeriod = 0 => \A p \in CronTasks : task[p].pc = "idle"
    /\ now' = now + d
    /\ ticks' = ticks + 1
    /\ UNCHANGED <<cache, hist, lastGet, remote, task>>

WarmRequests ==
    [method : {"GET"}, path : {"/api/stats", "/api/languages"},
     username : {NullString}, private : {"true"}]

WarmNext ==
    \/ \E req \in WarmRequests : FirstRefreshDone /\ handler("req1", req, 1)
    \/ \E p \in CronTasks : CronTimer(p)
    \/ \E p \in CronTasks : CronLanguages(p)
    \/ \E p \in CronTasks : CronEnd(p)
    \/ \E p \in RefreshTasks : UserAuthResponse(p, TRUE)
    \/ \E p \in RefreshTasks : UserProfileResponse(p, TRUE)
    \/ \E p \in RefreshTasks : UserReposResponse(p, TRUE)
    \/ \E p \in RefreshTasks : UserCommitsResponse(p, TRUE)
    \/ \E p \in RefreshTasks : UserIssuesResponse(p, TRUE)
    \/ \E p \in RefreshTasks : UserPRsResponse(p, TRUE)
    \/ \E p \in RefreshTasks : LangAuthResponse(p, TRUE)
    \/ \E p \in RefreshTasks : LangReposResponse(p, TRUE)
    \/ \E p \in RefreshTasks : LangLanguagesResponse(p, TRUE)
    \/ \E d \in {1, CronPeriod - (now % CronPeriod)} : WarmClock(d)

SpecWarm == RefreshInit /\ [][WarmNext]_vars

\* ------------------------------------------------------------------ claims

\* C1 (SpecCache): a get(k) returns absent exactly when k was never set or
\* the time since the latest set(k, _) is at least the TTL; the boundary,
\* elapsed = TTL, is absent.
C1_CacheExpiry ==
    lastGet # Null =>
        LET s == lastGet.latestSet
        IN  (lastGet.result = Null)
                <=> (s = Null \/ lastGet.at - s.at >= CACHE_DURATION)

\* C1 witness: a get exactly TTL after the set returned absent, and a get one
\* millisecond earlier would not have.
C1_Witness ==
    /\ lastGet # Null
    /\ lastGet.latestSet # Null
    /\ lastGet.at - lastGet.latestSet.at = CACHE_DURATION
    /\ lastGet.result = Null

\* C2 (SpecCache): a get(k) less than TTL after set(k, v) returns exactly v,
\* whatever was set or got on other keys in between.
C2_CacheRoundTrip ==
    (/\ lastGet # Null
     /\ lastGet.latestSet # Null
     /\ lastGet.at - lastGet.latestSet.at < CACHE_DURATION)
        => lastGet.result = lastGet.latestSet.data

\* C2 witness: v came back after operations on another key and some time.
C2_Witness ==
    /\ lastGet # Null
    /\ lastGet.latestSet # Null
    /\ lastGet.latestSet.others
    /\ lastGet.at - lastGet.latestSet.at = CACHE_DURATION - 1
    /\ lastGet.result = lastGet.latestSet.data

\* What a run's history says.
Issued(t, api) == \E i \in 1..Len(t.log) : t.log[i].api = api
Succeeded(t, api) == \E i \in 1..Len(t.log) : t.log[i].api = api /\ t.log[i].status = "ok"
Failed(t, api) == \E i \in 1..Len(t.log) : t.log[i].api = api /\ t.log[i].status = "error"
ListingIssued(t) == Issued(t, "listForAuthenticatedUser") \/ Issued(t, "listForUser")
\* The run computed its result (a cache miss) and returned it.
Computed(t) == t.pc = "done" /\ t.outcome # Null /\ t.outcome.kind = "return" /\ ~t.outcome.hit
\* The run learnt the token's identity: from an entry younger than the TTL
\* when it began, or from a getAuthenticated call of its own that succeeded.
IdentityKnown(t) ==
    \/ /\ t.start.identity # Null
       /\ t.start.at - t.start.identity.timestamp < CACHE_DURATION
    \/ Succeeded(t, "getAuthenticated")

\* C3 as stated (Spec): once a run has issued its repository listing, the
\* authenticated listing is the one issued exactly when includePrivate is true
\* and the username is, case-insensitively, the token owner's.
C3_RoutingByOwnership ==
    \A p \in Tasks :
        ListingIssued(task[p]) =>
            (Issued(task[p], "listForAuthenticatedUser")
                <=> (task[p].includePrivate /\ IsTokenOwner(task[p].username)))

\* C3 amended (Spec): in getUserStats and in getLanguageStats, on a cache miss,
\* a run that reaches the listing step issues exactly one listing: the
\* authenticated one exactly when includePrivate is true, the run learnt the
\* token's identity, and the username is that identity's login up to case; the
\* public one otherwise.  getLanguageStats reaches the step after the
\* identity check, getUserStats after the profile fetch succeeded.  With
\* includePrivate false the authenticated listing is never issued.
C3_Routing ==
    \A p \in Tasks :
        LET t == task[p]
            authenticated == Issued(t, "listForAuthenticatedUser")
            public == Issued(t, "listForUser")
            reached == IF t.fn = "getUserStats" THEN Succeeded(t, "getByUsername")
                       ELSE t.fn = "getLanguageStats" /\ t.pc # "ls_auth"
                            /\ ~(t.pc = "done" /\ t.outcome.kind = "return" /\ t.outcome.hit)
        IN  /\ (authenticated \/ public) <=> reached
            /\ ~(authenticated /\ public)
            /\ reached =>
                   (authenticated <=>
                       (t.includePrivate /\ IdentityKnown(t) /\ IsTokenOwner(t.username)))
            /\ ~t.includePrivate => ~authenticated

\* C3 witness: getLanguageStats, asked for ELYOR04 with private=true while a
\* fresh identity was cached, issued the authenticated listing.
C3_Witness ==
    \E p \in Tasks :
        /\ task[p].fn = "getLanguageStats"
        /\ task[p].username = "ELYOR04"
        /\ ~Issued(task[p], "getAuthenticated")
        /\ Issued(task[p], "listForAuthenticatedUser")

\* The repositories the run's listing returned.
Fetched(t) ==
    IF Issued(t, "listForAuthenticatedUser") THEN ListForAuthenticatedUser
    ELSE ListForUser(t.username)

\* C4 as stated (SpecUser): the issue count and the PR count degrade
\* independently: a failed issue search leaves totalIssues 0 and totalPRs the
\* size of the PR search's result; a failed PR search leaves totalPRs 0 and
\* totalIssues the size of the issue search's result.
C4_IndependentCounts ==
    \A p \in Tasks :
        (Computed(task[p]) /\ task[p].fn = "getUserStats") =>
            LET t == task[p]
                stats == t.outcome.value
            IN  /\ Failed(t, "searchIssues") =>
                       /\ stats.totalIssues = 0
                       /\ ~Failed(t, "searchPRs") => stats.totalPRs = SearchPRs(t.username)
                /\ Failed(t, "searchPRs") =>
                       /\ stats.totalPRs = 0
                       /\ ~Failed(t, "searchIssues") =>
                              stats.totalIssues = SearchIssues(t.username)

\* C5 as stated (SpecUser): when the commit search fails after the profile
\* and the listing succeeded, the run still returns, totalCommits is 0, every
\* other field is what the other calls give it, and the issue search and the
\* PR search are both still issued.
C5_CommitDegradation ==
    \A p \in Tasks :
        (/\ task[p].fn = "getUserStats"
         /\ task[p].pc = "done"
         /\ Failed(task[p], "searchCommits")) =>
            LET t == task[p]
                stats == t.outcome.value
                user == GetByUsername(t.username)
            IN  /\ Computed(t)
                /\ stats.totalCommits = 0
                /\ stats.totalStars = SumStars(Fetched(t))
                /\ stats.totalForks = SumForks(Fetched(t))
                /\ stats.totalRepos = Len(Fetched(t))
                /\ stats.followers = user.followers
                /\ stats.following = user.following
                /\ stats.totalIssues =
                       IF Succeeded(t, "searchIssues") THEN SearchIssues(t.username) ELSE 0
                /\ stats.totalPRs =
                       IF Succeeded(t, "searchPRs") THEN SearchPRs(t.username) ELSE 0
                /\ Issued(t, "searchIssues")
                /\ Issued(t, "searchPRs")

\* C6 as stated (SpecUser): publicRepos and privateRepos are counted from the
\* fetched repositories only when the authenticated listing was used; whenever
\* the public listing was used, publicRepos is the profile's public_repos and
\* privateRepos is 0.
C6_RepoCountFallback ==
    \A p \in Tasks :
        (Computed(task[p]) /\ task[p].fn = "getUserStats") =>
            LET t == task[p]
                stats == t.outcome.value
            IN  IF Issued(t, "listForAuthenticatedUser")
                THEN /\ stats.publicRepos = Len(SelectSeq(Fetched(t), IsPublic))
                     /\ stats.privateRepos = Len(SelectSeq(Fetched(t), IsPrivate))
                ELSE /\ stats.publicRepos = GetByUsername(t.username).public_repos
                     /\ stats.privateRepos = 0

\* C7 as stated (SpecLang): whenever the accumulated bytes total zero the
\* result is the empty mapping, no entry of a result is ever NaN, and the run
\* does not fail.
C7_ZeroDataSafety ==
    \A p \in Tasks :
        (/\ task[p].fn = "getLanguageStats"
         /\ task[p].pc = "done"
         /\ Succeeded(task[p], task[p].listing)) =>
            LET t == task[p]
                entries == t.outcome.value.entries
            IN  /\ Computed(t)
                /\ TotalBytes(t.languages) = 0 => entries = <<>>
                /\ \A i \in 1..Len(entries) : entries[i].pct # NaN

\* The bytes a language report, or the accumulated object, holds for lang.
RECURSIVE BytesOf(_, _)
BytesOf(report, lang) ==
    IF report = <<>> THEN 0
    ELSE (IF Head(report).lang = lang THEN Head(report).bytes ELSE 0)
         + BytesOf(Tail(report), lang)

\* The bytes of lang summed over the repositories with index in S.
RECURSIVE BytesOver(_, _, _)
BytesOver(S, repos, lang) ==
    IF S = {} THEN 0
    ELSE LET j == CHOOSE j \in S : TRUE
         IN  BytesOf(repos[j].languages, lang) + BytesOver(S \ {j}, repos, lang)

\* C8 (SpecLang): the byte totals the percentages are computed from are, per
\* language, the sum over exactly the fetched repositories that are not forks
\* and whose language fetch succeeded.  No fork's languages are fetched; a
\* failed fetch skips that repository only: every later non-fork repository is
\* still fetched and the run returns.
C8_LanguageAccumulation ==
    \A p \in Tasks :
        (/\ task[p].fn = "getLanguageStats"
         /\ task[p].pc \in {"ls_langs", "done"}
         /\ Succeeded(task[p], task[p].listing)) =>
            LET t == task[p]
                calls == {i \in 1..Len(t.log) : t.log[i].api = "listLanguages"}
                attempted == {t.log[i].repo : i \in calls}
                fetched == {t.log[i].repo : i \in {c \in calls : t.log[c].status = "ok"}}
                last == IF t.pc = "done" THEN Len(t.repos) ELSE t.idx
            IN  /\ t.repos = Fetched(t)
                /\ attempted = {j \in 1..last : ~t.repos[j].fork}
                /\ t.pc = "done" => Computed(t)
                /\ \A lang \in Langs :
                       BytesOf(t.languages, lang) = BytesOver(fetched, t.repos, lang)
                /\ \A i, j \in 1..Len(t.languages) :
                       t.languages[i].lang = t.languages[j].lang => i = j
                /\ t.pc = "done" =>
                       \A i \in 1..Len(t.outcome.value.entries) :
                           LET e == t.outcome.value.entries[i]
                           IN  e.pct = Percent(BytesOver(fetched, t.repos, e.lang),
                                               TotalBytes(t.languages))

\* C8 witness: the first repository's language fetch failed, the second one's
\* succeeded and its bytes are the totals.
C8_Witness ==
    \E p \in Tasks :
        /\ Computed(task[p])
        /\ task[p].fn = "getLanguageStats"
        /\ Len(task[p].log) >= 2
        /\ task[p].log[Len(task[p].log) - 1] =
               [api |-> "listLanguages", repo |-> 1, status |-> "error"]
        /\ task[p].log[Len(task[p].log)] =
               [api |-> "listLanguages", repo |-> 2, status |-> "ok"]
        /\ task[p].languages = <<[lang |-> "A", bytes |-> 300], [lang |-> "B", bytes |-> 700]>>

\* C9 (SpecLang): when the accumulated bytes total more than zero, the result
\* has one entry per language, each the hundredth of a percent nearest to
\* 100 * bytes / total and within 0..100, and the entries are in order of
\* non-increasing percentage; {A: 300, B: 700} gives [B: 70.00, A: 30.00].
C9_Percentages ==
    \A p \in Tasks :
        (/\ Computed(task[p])
         /\ task[p].fn = "getLanguageStats"
         /\ TotalBytes(task[p].languages) > 0) =>
            LET t == task[p]
                total == TotalBytes(t.languages)
                entries == t.outcome.value.entries
            IN  /\ Len(entries) = Len(t.languages)
                /\ \A i \in 1..Len(t.languages) :
                       \E k \in 1..Len(entries) :
                           /\ entries[k].lang = t.languages[i].lang
                           /\ 2 * (entries[k].pct * total - 10000 * t.languages[i].bytes) <= total
                           /\ 2 * (10000 * t.languages[i].bytes - entries[k].pct * total) <= total
                /\ \A k \in 1..Len(entries) : entries[k].pct \in 0..10000
                /\ \A k \in 1..(Len(entries) - 1) : entries[k].pct >= entries[k + 1].pct
                /\ t.languages = <<[lang |-> "A", bytes |-> 300], [lang |-> "B", bytes |-> 700]>>
                       => entries = <<[lang |-> "B", pct |-> 7000], [lang |-> "A", pct |-> 3000]>>

\* C9 witness: {A: 300, B: 700} was accumulated and [B: 70.00, A: 30.00] returned.
C9_Witness ==
    \E p \in Tasks :
        /\ Computed(task[p])
        /\ task[p].fn = "getLanguageStats"
        /\ task[p].languages = <<[lang |-> "A", bytes |-> 300], [lang |-> "B", bytes |-> 700]>>
        /\ task[p].outcome.value.entries =
               <<[lang |-> "B", pct |-> 7000], [lang |-> "A", pct |-> 3000]>>

\* C10 (Spec): a run of getUserStats fails, and the handler answers 500 with
\* {error: message}, exactly when its profile fetch or its repository listing
\* failed; a run of getLanguageStats exactly when its listing failed.  Failed
\* identity checks and searches do not fail the run, and no remote call is
\* issued twice by one run.
C10_FatalErrors ==
    \A p \in Tasks :
        LET t == task[p]
            fatal == \/ Failed(t, "getByUsername")
                     \/ Failed(t, "listForUser")
                     \/ Failed(t, "listForAuthenticatedUser")
        IN  /\ (t.pc = "done" /\ t.fn # NullString) =>
                /\ (t.outcome.kind = "throw") <=> fatal
                /\ (t.resp.status = 500) <=> fatal
                /\ fatal => t.resp.body = [error |-> t.outcome.message]
                /\ ~fatal => t.resp.status = 200
            /\ t.fn = "getLanguageStats" => ~Issued(t, "getByUsername")
            /\ \A i, j \in 1..Len(t.log) :
                   (i < j /\ t.log[i].api = t.log[j].api) =>
                       (t.log[i].api = "listLanguages" /\ t.log[i].repo # t.log[j].repo)

\* C10 witness: the identity check, the commit search and the issue search
\* all failed and the request was answered 200.
C10_Witness ==
    \E p \in Tasks :
        /\ task[p].pc = "done"
        /\ Failed(task[p], "getAuthenticated")
        /\ Failed(task[p], "searchCommits")
        /\ Failed(task[p], "searchIssues")
        /\ task[p].resp.status = 200

\* C11 as stated (SpecRefresh): the remote getAuthenticated call is issued at
\* most once within any span of the TTL: two runs that both issued it (each
\* issues it in the step it starts with) started at least a TTL apart.
C11_IdentityOnce ==
    \A p, q \in DOMAIN task :
        (/\ p # q
         /\ Issued(task[p], "getAuthenticated")
         /\ Issued(task[q], "getAuthenticated")) =>
            \/ task[p].start.at - task[q].start.at >= CACHE_DURATION
            \/ task[q].start.at - task[p].start.at >= CACHE_DURATION

\* C12 as stated (SpecWarm): with every remote call succeeding, once the first
\* scheduled refresh has completed the cache holds, at every later time, fresh
\* entries under the user-stats and lang-stats keys of the refreshed account
\* with private=true, and a request for that account with private=true is a
\* cache hit.
C12_WarmCache ==
    [][FirstRefreshDone =>
          /\ getFromCache(UserStatsKey(DefaultUsername, TRUE)) # Null
          /\ getFromCache(LangStatsKey(DefaultUsername, TRUE)) # Null
          /\ (task["req1"].pc = "idle" /\ task'["req1"].pc # "idle") =>
                 (task'["req1"].outcome # Null /\ task'["req1"].outcome.hit)]_vars

\* The paths the handler routes.
Routes == {"/stats", "/languages", "/api/stats", "/api/languages"}

\* C13 as stated (Spec): every request whose path is not one of the four
\* routes is answered 404 with body {"error":"Not found"}, without a remote
\* call.
C13_UnknownRouteAnyMethod ==
    \A p \in DOMAIN task :
        (task[p].pc = "done" /\ task[p].req # Null /\ task[p].req.path \notin Routes) =>
            /\ task[p].resp.status = 404
            /\ task[p].resp.body = [error |-> "Not found"]
            /\ task[p].log = <<>>

\* C13, amended (Spec): every request that is not an OPTIONS request and whose
\* path is not one of the four routes is answered, in the step that receives
\* it, 404 with body {"error":"Not found"}, for every query string; no remote
\* call is issued, no aggregation is started and the cache is left as it was.
C13_UnknownRoute ==
    [][\A p \in DOMAIN task :
          (/\ task[p].pc = "idle"
           /\ task'[p].pc # "idle"
           /\ task'[p].req.method # "OPTIONS"
           /\ task'[p].req.path \notin Routes) =>
              /\ task'[p].pc = "done"
              /\ task'[p].resp.status = 404
              /\ task'[p].resp.body = [error |-> "Not found"]
              /\ task'[p].log = <<>>
              /\ task'[p].fn = NullString
              /\ cache' = cache]_vars

\* C13 witness: GET /nonexistent?username=octocat&private=true was answered 404.
C13_Witness ==
    \E p \in DOMAIN task :
        /\ task[p].pc = "done"
        /\ task[p].req = [method |-> "GET", path |-> "/nonexistent",
                          username |-> "octocat", private |-> "true"]
        /\ task[p].resp.status = 404
        /\ task[p].resp.body = [error |-> "Not found"]

\* The three CORS headers are among headers, with their values.
HasCors(headers) ==
    /\ {"Access-Control-Allow-Origin", "Access-Control-Allow-Methods",
        "Access-Control-Allow-Headers"} \subseteq DOMAIN headers
    /\ headers["Access-Control-Allow-Origin"] = "*"
    /\ headers["Access-Control-Allow-Methods"] = "GET, OPTIONS"
    /\ headers["Access-Control-Allow-Headers"] = "Content-Type"

\* C14 (Spec): every response the handler produces, whatever its status,
\* carries the three CORS headers; an OPTIONS request is answered, in the step
\* that receives it, 200 with an empty body, and starts no aggregation: no
\* remote call, no cache write.
C14_Cors ==
    [][\A p \in DOMAIN task :
          /\ task'[p].resp # Null => HasCors(task'[p].resp.headers)
          /\ (/\ task[p].pc = "idle"
              /\ task'[p].pc # "idle"
              /\ task'[p].req.method = "OPTIONS") =>
                 /\ task'[p].pc = "done"
                 /\ task'[p].resp.status = 200
                 /\ task'[p].resp.body = Null
                 /\ task'[p].log = <<>>
                 /\ task'[p].fn = NullString
                 /\ cache' = cache]_vars

\* C14 witness: a request was answered 500 and the response has the CORS headers.
C14_Witness ==
    \E p \in DOMAIN task :
        /\ task[p].resp # Null
        /\ task[p].resp.status = 500
        /\ HasCors(task[p].resp.headers)

\* What a run's own remote calls, as its log has them, make of UserStats.
StatsFromLog(t) ==
    LET user == GetByUsername(t.username)
    IN  [username |-> user.login,
         name |-> IF user.name = NullString THEN user.login ELSE user.name,
         totalStars |-> SumStars(Fetched(t)),
         totalForks |-> SumForks(Fetched(t)),
         totalRepos |-> Len(Fetched(t)),
         publicRepos |-> IF t.includePrivate THEN Len(SelectSeq(Fetched(t), IsPublic))
                         ELSE user.public_repos,
         privateRepos |-> IF t.includePrivate THEN Len(SelectSeq(Fetched(t), IsPrivate))
                          ELSE 0,
         followers |-> user.followers,
         following |-> user.following,
         totalCommits |-> IF Succeeded(t, "searchCommits") THEN SearchCommits(t.username) ELSE 0,
         totalIssues |-> IF Succeeded(t, "searchIssues") THEN SearchIssues(t.username) ELSE 0,
         totalPRs |-> IF Succeeded(t, "searchPRs") THEN SearchPRs(t.username) ELSE 0]

\* The repositories whose language fetch a run's log has as resolved.
LanguagesFetched(t) ==
    {t.log[i].repo : i \in {c \in 1..Len(t.log) :
                               t.log[c].api = "listLanguages" /\ t.log[c].status = "ok"}}

\* value is the complete result of the run t alone.
ResultOfRun(t, value) ==
    /\ \A i \in 1..Len(t.log) : t.log[i].status # "pending"
    /\ t.fn = "getUserStats" => value = StatsFromLog(t)
    /\ t.fn = "getLanguageStats" =>
           /\ value = SortedPercentages(t.languages)
           /\ \A lang \in Langs :
                  BytesOf(t.languages, lang) = BytesOver(LanguagesFetched(t), Fetched(t), lang)

\* C15 (SpecServe): under every interleaving, an entry under a stats key is
\* added or changed only by the step in which a run for that key returns from
\* its miss path, after all its remote calls have settled, and the entry is
\* then the complete result of that run alone, stamped with the current time;
\* a run writes its key in no other step, so at most once; a step in which a
\* run fails fatally changes nothing in the cache; no entry is ever removed.
C15_AtomicWrite ==
    [][/\ DOMAIN cache \subseteq DOMAIN cache'
       /\ \A k \in DOMAIN cache' \ {AuthUserKey} :
              (k \notin DOMAIN cache \/ cache'[k] # cache[k]) =>
                  \E p \in DOMAIN task :
                      /\ task[p].pc # "done"
                      /\ Computed(task'[p])
                      /\ task'[p].cacheKey = k
                      /\ cache'[k] = [data |-> task'[p].outcome.value, timestamp |-> now]
                      /\ ResultOfRun(task'[p], task'[p].outcome.value)
       /\ \A p \in DOMAIN task :
              (task[p].pc # "done" /\ task'[p].pc = "done"
                   /\ task'[p].outcome.kind = "throw") => cache' = cache]_vars

\* C15 witness: two runs for one key overlapped; one returned and its result
\* is the entry, the other failed fatally and the entry is still that result.
C15_Witness ==
    \E p, q \in DOMAIN task :
        /\ p # q
        /\ Computed(task[p])
        /\ task[q].pc = "done"
        /\ task[q].outcome.kind = "throw"
        /\ task[q].cacheKey = task[p].cacheKey
        /\ task[p].start.at = task[q].start.at
        /\ cache[task[p].cacheKey].data = task[p].outcome.value
        /\ Failed(task[p], "searchCommits")

\* The run is between its first await and its end.
InFlight(t) == t.pc \notin {"idle", "done"}

\* The identity the run found in the cache when it started was fresh.
IdentityFreshAtStart(t) ==
    t.start.identity # Null /\ t.start.at - t.start.identity.timestamp < CACHE_DURATION

\* The remote calls of a run that went through its miss path to the end: the
\* identity check unless a fresh identity was cached, then every call of the
\* aggregation, each issued by the run itself.
FullSequence(t) ==
    /\ Issued(t, "getAuthenticated") <=> ~IdentityFreshAtStart(t)
    /\ Succeeded(t, "listForUser") \/ Succeeded(t, "listForAuthenticatedUser")
    /\ t.fn = "getUserStats" =>
           /\ Succeeded(t, "getByUsername")
           /\ Issued(t, "searchCommits")
           /\ Issued(t, "searchIssues")
           /\ Succeeded(t, "searchIssues") => Issued(t, "searchPRs")
    /\ t.fn = "getLanguageStats" =>
           \A j \in 1..Len(t.repos) :
               ~t.repos[j].fork =>
                   \E i \in 1..Len(t.log) :
                       t.log[i].api = "listLanguages" /\ t.log[i].repo = j

\* C16 (SpecServeFair): a request that starts while another run for the same
\* key is in flight and the key is absent or expired takes the miss path
\* itself; a run that takes the miss path eventually ends, and if it returns
\* it has issued its own full sequence of remote calls; the step in which it
\* returns writes its result under the key, over whatever an earlier run left
\* there.
C16_NoDeduplication ==
    /\ [][\A q \in DOMAIN task :
             /\ (/\ task[q].pc = "idle"
                 /\ task'[q].pc # "idle"
                 /\ getFromCache(task'[q].cacheKey) = Null
                 /\ \E p \in DOMAIN task :
                        InFlight(task[p]) /\ task[p].cacheKey = task'[q].cacheKey) =>
                    /\ InFlight(task'[q])
                    /\ Len(task'[q].log) = 1
                    /\ task'[q].log[1].status = "pending"
             /\ (task[q].pc # "done" /\ Computed(task'[q])) =>
                    /\ FullSequence(task'[q])
                    /\ cache'[task'[q].cacheKey] =
                           [data |-> task'[q].outcome.value, timestamp |-> now]]_vars
    /\ \A q \in RequestTasks : InFlight(task[q]) ~> task[q].pc = "done"

\* C16 witness: two runs for one key overlapped (neither found the other's
\* entry), both returned, with different results, and the entry is the result
\* of req2, whose commit search succeeded.
C16_Witness ==
    /\ Computed(task["req1"])
    /\ Computed(task["req2"])
    /\ task["req1"].cacheKey = task["req2"].cacheKey
    /\ task["req1"].start.at = task["req2"].start.at
    /\ Failed(task["req1"], "searchCommits")
    /\ Succeeded(task["req2"], "searchCommits")
    /\ cache[task["req2"].cacheKey].data = task["req2"].outcome.value

\* C17 (SpecServe): a call that finds a fresh entry under its key returns, in
\* the step it starts with, exactly the stored value, without any remote call
\* (nor the identity check), and the cache, timestamps included, is as it was;
\* a call that finds an expired entry leaves that entry in place.
C17_HitIsPure ==
    [][\A q \in DOMAIN task :
          (task[q].pc = "idle" /\ task'[q].pc # "idle" /\ task'[q].fn # NullString) =>
              LET k == task'[q].cacheKey
              IN  /\ task'[q].cacheKey =
                         (IF task'[q].fn = "getUserStats"
                          THEN UserStatsKey(task'[q].username, task'[q].includePrivate)
                          ELSE LangStatsKey(task'[q].username, task'[q].includePrivate))
                  /\ (k \in DOMAIN cache /\ now - cache[k].timestamp < CACHE_DURATION) =>
                         /\ task'[q].pc = "done"
                         /\ task'[q].outcome = [kind |-> "return", value |-> cache[k].data,
                                                hit |-> TRUE]
                         /\ task'[q].log = <<>>
                         /\ task'[q].resp.status = 200
                         /\ task'[q].resp.body = [json |-> cache[k].data]
                         /\ cache' = cache
                  /\ (k \in DOMAIN cache /\ now - cache[k].timestamp >= CACHE_DURATION) =>
                         /\ InFlight(task'[q])
                         /\ k \in DOMAIN cache'
                         /\ cache'[k] = cache[k]]_vars

\* C17 witness: req2 was served from the cache the value req1 had computed and
\* stored a millisecond less than the TTL before; the entry still has the
\* timestamp of req1's write.
C17_Witness ==
    /\ Computed(task["req1"])
    /\ task["req2"].pc = "done"
    /\ task["req2"].outcome # Null
    /\ task["req2"].outcome.kind = "return"
    /\ task["req2"].outcome.hit
    /\ task["req2"].log = <<>>
    /\ task["req2"].start.at = CACHE_DURATION - 1
    /\ task["req2"].outcome.value = task["req1"].outcome.value
    /\ cache[task["req2"].cacheKey] = [data |-> task["req1"].outcome.value, timestamp |-> 0]

\* The usernames calls are made for.
CalledUsernames == {DefaultUsername, "ELYOR04", "octocat"}

\* stats holds nothing but what the public listing and the profile show.
PublicStats(username, stats) ==
    LET public == ListForUser(username)
    IN  /\ stats.totalRepos = Len(public)
        /\ stats.totalStars = SumStars(public)
        /\ stats.totalForks = SumForks(public)
        /\ stats.publicRepos = GetByUsername(username).public_repos
        /\ stats.privateRepos = 0

\* languages has no language that only a repository outside the public
\* listing reports.
PublicLanguages(username, languages) ==
    LET public == ListForUser(username)
    IN  \A i \in 1..Len(languages.entries) :
            \E j \in 1..Len(public) : BytesOf(public[j].languages, languages.entries[i].lang) > 0

\* C18 (SpecRefresh): under every interleaving of a request and the scheduled
\* refresh, a call with includePrivate=false never issues the authenticated
\* listing and what it returns, computed or from the cache, holds public data
\* only; every entry under a public-flag key holds public data only; and a
\* call with includePrivate=true neither reads nor writes a public-flag key.
C18_PublicStaysPublic ==
    /\ \A u \in CalledUsernames :
           /\ UserStatsKey(u, FALSE) \in DOMAIN cache =>
                  PublicStats(u, cache[UserStatsKey(u, FALSE)].data)
           /\ LangStatsKey(u, FALSE) \in DOMAIN cache =>
                  PublicLanguages(u, cache[LangStatsKey(u, FALSE)].data)
    /\ \A p \in DOMAIN task :
           LET t == task[p]
           IN  /\ (t.fn # NullString /\ ~t.includePrivate) =>
                      /\ ~Issued(t, "listForAuthenticatedUser")
                      /\ t.cacheKey \in {UserStatsKey(t.username, FALSE),
                                         LangStatsKey(t.username, FALSE)}
                      /\ (t.pc = "done" /\ t.outcome.kind = "return") =>
                             IF t.fn = "getUserStats"
                             THEN PublicStats(t.username, t.outcome.value)
                             ELSE PublicLanguages(t.username, t.outcome.value)
               /\ (t.fn # NullString /\ t.includePrivate) =>
                      \A u \in CalledUsernames :
                          t.cacheKey \notin {UserStatsKey(u, FALSE), LangStatsKey(u, FALSE)}

\* C18 witness: the refresh has stored the owner's stats, private repository
\* included, and a request without private=true for the same account was
\* answered with the public repositories only.
C18_Witness ==
    /\ UserStatsKey(DefaultUsername, TRUE) \in DOMAIN cache
    /\ cache[UserStatsKey(DefaultUsername, TRUE)].data.privateRepos = 1
    /\ cache[UserStatsKey(DefaultUsername, TRUE)].data.totalRepos = 2
    /\ task["req1"].pc = "done"
    /\ task["req1"].fn = "getUserStats"
    /\ ~task["req1"].includePrivate
    /\ task["req1"].outcome.kind = "return"
    /\ task["req1"].outcome.value.totalRepos = 1
    /\ task["req1"].outcome.value.privateRepos = 0

\* C19 as stated (Spec): an entry under the -private key of the token owner's
\* username was computed from the authenticated listing: a run for the owner
\* with includePrivate=true that stored its result used that listing, and the
\* stored UserStats count all the owner's repositories, private ones included.
C19_PrivateKeyHoldsPrivate ==
    /\ \A u \in {v \in CalledUsernames : IsTokenOwner(v)} :
           UserStatsKey(u, TRUE) \in DOMAIN cache =>
               LET stats == cache[UserStatsKey(u, TRUE)].data
               IN  /\ stats.totalRepos = Len(ListForAuthenticatedUser)
                   /\ stats.privateRepos = Len(SelectSeq(ListForAuthenticatedUser, IsPrivate))
    /\ \A p \in DOMAIN task :
           (/\ Computed(task[p])
            /\ task[p].includePrivate
            /\ IsTokenOwner(task[p].username)) =>
               Issued(task[p], "listForAuthenticatedUser")

\* C20 as stated (SpecServe): a value served from the cache is never the
\* default a failed call left behind: served UserStats have the counts the
\* three searches give, and served LanguageStats have the languages of every
\* listed repository that is not a fork (the public one is in either listing).
C20_DegradedNotServed ==
    \A q \in DOMAIN task :
        (/\ task[q].pc = "done"
         /\ task[q].fn # NullString
         /\ task[q].outcome.kind = "return"
         /\ task[q].outcome.hit) =>
            LET t == task[q]
                value == t.outcome.value
                public == SelectSeq(ListForUser(t.username), LAMBDA r : ~r.fork)
            IN  IF t.fn = "getUserStats"
                THEN /\ value.totalCommits = SearchCommits(t.username)
                     /\ value.totalIssues = SearchIssues(t.username)
                     /\ value.totalPRs = SearchPRs(t.username)
                ELSE \A j \in 1..Len(public) :
                         \A l \in 1..Len(public[j].languages) :
                             \E i \in 1..Len(value.entries) :
                                 value.entries[i].lang = public[j].languages[l].lang

====
